---- MODULE Spec2Model ----
(***************************************************************************)
(* Sorteeer (Obsidian plugin): the plugin object (settings, action stats,  *)
(* stored plugin data), the review modal (queue, cursor, current note),    *)
(* the more-actions modal and the daily-note operations, over a model of   *)
(* the host's vault.  Strings are sequences of characters (each a TLA+     *)
(* string); a file name is the basename, the extension is kept apart.      *)
(***************************************************************************)
EXTENDS Naturals, Integers, Sequences, FiniteSets, TLC

VARIABLES
    folders,        \* vault: the folder paths that exist
    files,          \* vault: file id -> [st, folder, name, ext, ctime, content]
    trash,          \* host: the system trash, a sequence of [path, content]
    today,          \* host: the calendar date moment() returns
    stored,         \* host: the plugin's data.json (loadData / saveData)
    DEFAULTS,       \* the object DEFAULT_SETTINGS
    loaded,         \* the plugin has run onload
    settings,       \* SorteeerPlugin.settings
    actionStats,    \* SorteeerPlugin.actionStats
    ui,             \* the modal on top: "closed", "review", "more", "link" or "picker"
    sortedNotes,    \* SorteeerModal.sortedNotes
    currentIndex,   \* SorteeerModal.currentIndex (0-based, as in the code)
    currentNote,    \* SorteeerModal.currentNote
    dailyPc,        \* MoreActionsModal.addToDailyNote: "idle" or "got" (after getDailyNote)
    dailyNote,      \* the value getDailyNote returned to the pending addToDailyNote
    saves,          \* the saveActionStats calls in flight, a sequence of
                    \* [pc ("load" or "save"), data (what loadData returned)]
    op,             \* observer: the handler that ran last
    built,          \* observer: the last handler rebuilt the queue
    notice,         \* observer: the set of Notice messages the last handler displayed
    displayLog      \* observer: the notes displayed since the modal opened, while it
                    \* has only been opened and skipped through (Void after anything else)

vars == <<folders, files, trash, today, stored, DEFAULTS, loaded, settings,
          actionStats, ui, sortedNotes, currentIndex, currentNote,
          dailyPc, dailyNote, saves, op, built, notice, displayLog>>

vaultVars == <<folders, files, trash, today>>
pluginVars == <<stored, DEFAULTS, loaded, settings, actionStats>>
modalVars == <<ui, sortedNotes, currentIndex, currentNote>>
dailyVars == <<dailyPc, dailyNote>>

Null == "null"
Void == << "void" >>

----------------------------------------------------------------------------
(* Bounds *)

\* displayNote is not run once the noteDisplayed counter has reached MaxDisplayed
MaxDisplayed == 3
\* incrementActionStat is not run on another counter that has reached MaxCount
MaxCount == 1
\* stored plugin data of the settings specification holds at most this many keys
MaxStoredKeys == 2
\* the daily note's initial content has at most this many characters
MaxDailyLen == 3
\* at most this many saveActionStats calls are in flight at a time
MaxSaves == 2

----------------------------------------------------------------------------
(* Strings *)

\* s.includes(sub) / indexOf: sub occurs in s at position i (1-based)
OccursAt(s, sub, i) ==
    /\ i >= 1
    /\ i + Len(sub) - 1 <= Len(s)
    /\ \A j \in 1..Len(sub) : s[i + j - 1] = sub[j]

Includes(s, sub) == \E i \in 1..(Len(s) + 1) : OccursAt(s, sub, i)

\* the 1-based position of the leftmost occurrence of sub in s from position from on; 0 if none
IndexFrom(s, sub, from) ==
    IF \E i \in from..(Len(s) + 1) : OccursAt(s, sub, i)
    THEN CHOOSE i \in from..(Len(s) + 1) :
            /\ OccursAt(s, sub, i)
            /\ \A k \in from..(i - 1) : ~OccursAt(s, sub, k)
    ELSE 0

RECURSIVE SplitFrom(_, _, _)
\* String.prototype.split with a non-empty separator, scanning from position from
SplitFrom(s, sep, from) ==
    LET i == IndexFrom(s, sep, from) IN
    IF i = 0 THEN << SubSeq(s, from, Len(s)) >>
    ELSE << SubSeq(s, from, i - 1) >> \o SplitFrom(s, sep, i + Len(sep))

\* String.prototype.split: an empty separator splits into the single characters
\* ("".split("") is the empty array)
Split(s, sep) ==
    IF sep = << >> THEN [i \in 1..Len(s) |-> << s[i] >>]
    ELSE SplitFrom(s, sep, 1)

RECURSIVE Join(_, _)
\* Array.prototype.join
Join(parts, sep) ==
    IF Len(parts) = 0 THEN << >>
    ELSE IF Len(parts) = 1 THEN parts[1]
    ELSE parts[1] \o sep \o Join(Tail(parts), sep)

\* the characters a template literal renders the value undefined as
Undefined == << "undefined" >>

\* parts[1] = prefix + parts[1] on a JS array (index 1 is the second element):
\* a missing parts[1] reads as undefined, and assigning it extends the array,
\* the hole at index 0 (if any) joining as the empty string
SetSecond(parts, prefix) ==
    IF Len(parts) >= 2 THEN [parts EXCEPT ![2] = prefix \o parts[2]]
    ELSE IF Len(parts) = 1 THEN << parts[1], prefix \o Undefined >>
    ELSE << << >>, prefix \o Undefined >>

\* `\n- [[basename]]` without the leading newline
LinkText(basename) == << "-", " ", "[[" >> \o basename \o << "]]" >>

----------------------------------------------------------------------------
(* Objects: a JS object is a function from its keys *)

EmptyObj == << >>

\* Object.assign(target, source) / { ...target, ...source }: the keys of source win
ObjectAssign(target, source) ==
    [k \in (DOMAIN target) \cup (DOMAIN source) |->
        IF k \in DOMAIN source THEN source[k] ELSE target[k]]

\* { ...obj, key: value }
WithKey(obj, key, value) ==
    [k \in (DOMAIN obj) \cup {key} |-> IF k = key THEN value ELSE obj[k]]

SettingKeys ==
    {"sortFolder", "sortOrder", "deleteAction", "moveAction", "removeTagAction",
     "addTagAction", "addStarAction", "addLinkAction", "seeAlsoHeader",
     "dailyNoteFormat", "dailyNoteFolder", "dailyNoteSection", "showNotifications"}

DEFAULT_SETTINGS ==
    [k \in SettingKeys |->
        CASE k = "sortFolder" -> "/"
          [] k = "sortOrder" -> "random"
          [] k = "deleteAction" -> "trash"
          [] k = "moveAction" -> "Archive"
          [] k = "removeTagAction" -> << "#stub" >>
          [] k = "addTagAction" -> << "#reviewed" >>
          [] k = "addStarAction" -> << "*" >>
          [] k = "addLinkAction" -> ""
          [] k = "seeAlsoHeader" -> << "See also" >>
          [] k = "dailyNoteFormat" -> << "YYYY", "-", "MM", "-", "DD" >>
          [] k = "dailyNoteFolder" -> "/"
          [] k = "dailyNoteSection" -> << "#", "#", " ", "Reviewed" >>
          [] k = "showNotifications" -> TRUE]

\* mutant of LoadSettings: Object.assign(DEFAULT_SETTINGS, data), the defaults
\* object being the target
LoadSettingsIntoDefaults(defaults, data) ==
    [settings |-> ObjectAssign(defaults, data), defaults |-> ObjectAssign(defaults, data)]

\* loadSettings: Object.assign({}, DEFAULT_SETTINGS, await this.loadData()), as
\* [settings |-> this.settings, defaults |-> DEFAULT_SETTINGS afterwards]; the
\* target is a new object (loadData's null, when nothing is stored, is the
\* empty object to every reader)
LoadSettings(defaults, data) ==
    [settings |-> ObjectAssign(ObjectAssign(EmptyObj, defaults), data),
     defaults |-> defaults]

\* loadActionStats: stats?.actionStats || {}
LoadActionStatsOf(data) ==
    IF "actionStats" \in DOMAIN data THEN data["actionStats"] ELSE EmptyObj

\* this.actionStats[action] = (this.actionStats[action] || 0) + 1
IncrementedStats(stats, action) ==
    WithKey(stats, action, (IF action \in DOMAIN stats THEN stats[action] ELSE 0) + 1)

\* saveActionStats: saveData({ ...await this.loadData(), actionStats: this.actionStats })
SavedActionStats(data, stats) == WithKey(data, "actionStats", stats)

\* saveSettings: saveData(this.settings)
SavedSettings(setts) == setts

StatCount(stats, action) == IF action \in DOMAIN stats THEN stats[action] ELSE 0

\* the guard that caps the counters: incrementActionStat(action) may still run
CanIncrement(stats, action) ==
    StatCount(stats, action) < (IF action = "noteDisplayed" THEN MaxDisplayed ELSE MaxCount)

----------------------------------------------------------------------------
(* The vault *)

Root == "/"
FolderUniverse == {"/", "Inbox", "Archive", "Daily", "Inbox/Sub"}

ParentOf(folder) == IF folder = "Inbox/Sub" THEN "Inbox" ELSE Root

NoteIds == {"n1", "n2", "n3", "n4", "p1", "s1"}
DailyIds == {"d1", "d2"}
FileIds == NoteIds \cup DailyIds

Unused == [st |-> "unused", folder |-> Null, name |-> << >>, ext |-> "",
           ctime |-> 0, content |-> << >>]

File(folder, name, ext, ctime, content) ==
    [st |-> "present", folder |-> folder, name |-> name, ext |-> ext,
     ctime |-> ctime, content |-> content]

\* TFile.path, as the triple folder / basename . extension
PathOf(f) == << f.folder, f.name, f.ext >>

\* stat.size
SizeOf(f) == Len(f.content)

\* the file is in the vault (of the host's file index)
Present(fs, id) == id \in FileIds /\ fs[id].st = "present"

\* the file is on disk: indexed by the vault, or not yet
OnDisk(fs, id) == fs[id].st \in {"present", "unindexed"}

\* vault.getAbstractFileByPath for a file path: the file's id, or Null
FileAt(fs, folder, name, ext) ==
    IF \E id \in FileIds : Present(fs, id) /\ PathOf(fs[id]) = << folder, name, ext >>
    THEN CHOOSE id \in FileIds : Present(fs, id) /\ PathOf(fs[id]) = << folder, name, ext >>
    ELSE Null

\* a path on disk is taken, by a file the vault has indexed or has not
DiskTaken(fs, folder, name, ext) ==
    \E id \in FileIds : OnDisk(fs, id) /\ PathOf(fs[id]) = << folder, name, ext >>

\* TFolder.children: the files and the folders directly in the folder
Children(fs, flds, folder) ==
    {<< "file", id >> : id \in {i \in FileIds : Present(fs, i) /\ fs[i].folder = folder}}
    \cup {<< "folder", d >> : d \in {x \in flds : x # Root /\ ParentOf(x) = folder}}

\* mutant of MdChildren: the filter forgets the extension
FileChildren(fs, flds, folder) ==
    {c[2] : c \in {x \in Children(fs, flds, folder) : x[1] = "file"}}

\* folder.children.filter(file => file instanceof TFile && file.extension === 'md')
MdChildren(fs, flds, folder) ==
    {c[2] : c \in {x \in Children(fs, flds, folder) : x[1] = "file" /\ fs[x[2]].ext = "md"}}

----------------------------------------------------------------------------
(* Dates: moment().format(dailyNoteFormat) *)

Digits == << "0", "1", "2", "3", "4", "5", "6", "7", "8", "9" >>
DigitChar(n) == Digits[n + 1]
Pad2(n) == << DigitChar((n \div 10) % 10), DigitChar(n % 10) >>
Pad4(n) == Pad2(n \div 100) \o Pad2(n % 100)

\* one token of a moment format string
FormatToken(tok, date) ==
    CASE tok = "YYYY" -> Pad4(date.y)
      [] tok = "MM" -> Pad2(date.m)
      [] tok = "DD" -> Pad2(date.d)
      [] OTHER -> << tok >>

RECURSIVE FormatDate(_, _)
FormatDate(fmt, date) ==
    IF fmt = << >> THEN << >>
    ELSE FormatToken(Head(fmt), date) \o FormatDate(Tail(fmt), date)

----------------------------------------------------------------------------
(* The daily note *)

\* showNotification(message): the notices it displays
ShowNotification(setts, message) ==
    IF setts["showNotifications"] = TRUE THEN {message} ELSE {}

\* the name and folder of `${dailyNoteFolder}/${dateString}.md`
DailyNoteName(setts, date) == FormatDate(setts["dailyNoteFormat"], date)
DailyNoteFolder(setts) == setts["dailyNoteFolder"]

\* vault.create(path, "") succeeds: the folder exists and nothing on disk has the path
CanCreate(fs, flds, folder, name, ext) ==
    /\ folder \in flds
    /\ ~DiskTaken(fs, folder, name, ext)

FreshId(fs) == CHOOSE id \in DailyIds : fs[id].st = "unused"

\* mutant of GetDailyNote: the file is written empty whether it exists or not
GetDailyNoteOverwrites(fs, flds, setts, date) ==
    LET name == DailyNoteName(setts, date)
        folder == DailyNoteFolder(setts)
        found == FileAt(fs, folder, name, "md")
    IN  IF found # Null
        THEN [files |-> [fs EXCEPT ![found].content = << >>], note |-> found, notices |-> {}]
        ELSE IF CanCreate(fs, flds, folder, name, "md")
        THEN [files |-> [fs EXCEPT ![FreshId(fs)] = File(folder, name, "md", 9, << >>)],
              note |-> FreshId(fs), notices |-> {}]
        ELSE [files |-> fs, note |-> Null,
              notices |-> ShowNotification(setts, "Failed to find or create daily note")]

\* getDailyNote: [files |-> the vault's files afterwards, note |-> the TFile or Null,
\*                notices |-> what it displayed]
GetDailyNote(fs, flds, setts, date) ==
    LET name == DailyNoteName(setts, date)
        folder == DailyNoteFolder(setts)
        found == FileAt(fs, folder, name, "md")
    IN  IF found # Null
        THEN [files |-> fs, note |-> found, notices |-> {}]
        ELSE IF CanCreate(fs, flds, folder, name, "md")
        THEN [files |-> [fs EXCEPT ![FreshId(fs)] = File(folder, name, "md", 9, << >>)],
              note |-> FreshId(fs), notices |-> {}]
        ELSE \* create threw; getAbstractFileByPath again finds nothing
             [files |-> fs, note |-> Null,
              notices |-> ShowNotification(setts, "Failed to find or create daily note")]

\* the daily note's new content
AddToDailyContent(content, sectionToAdd, basename) ==
    IF Includes(content, sectionToAdd)
    THEN Join(SetSecond(Split(content, sectionToAdd), << "\n" >> \o LinkText(basename)),
              sectionToAdd)
    ELSE content \o << "\n", "\n" >> \o sectionToAdd \o << "\n" >> \o LinkText(basename)

----------------------------------------------------------------------------
(* The review queue *)

Perms(S) ==
    {p \in [1..Cardinality(S) -> S] : \A i, j \in 1..Cardinality(S) : i # j => p[i] # p[j]}

\* notes.sort(comparator): the orders the sort may produce (the order of
\* folder.children, which decides among equal keys, is the host's)
SortedBy(fs, notes, sortOrder) ==
    CASE sortOrder = "random" -> Perms(notes)
      [] sortOrder = "oldest" ->
            {p \in Perms(notes) : \A i, j \in 1..Len(p) : i < j => fs[p[i]].ctime <= fs[p[j]].ctime}
      [] sortOrder = "newest" ->
            {p \in Perms(notes) : \A i, j \in 1..Len(p) : i < j => fs[p[i]].ctime >= fs[p[j]].ctime}
      [] sortOrder = "smallest" ->
            {p \in Perms(notes) : \A i, j \in 1..Len(p) : i < j => SizeOf(fs[p[i]]) <= SizeOf(fs[p[j]])}

\* mutant of NextIndex: the cursor wraps one entry early
NextIndexEarly(idx, q) == IF idx + 1 >= Len(q) - 1 THEN 0 ELSE idx + 1

\* the cursor after currentIndex++ and the wrap at the end of the queue
NextIndex(idx, q) == IF idx + 1 >= Len(q) THEN 0 ELSE idx + 1

\* loadNextNote from queue q, cursor idx, current note cur: the possible outcomes
\* [q, idx, cur, notices, shown (the note displayNote was called with, or Null), built]
LoadNextNote(fs, flds, setts, q, idx, cur) ==
    LET notes == MdChildren(fs, flds, setts["sortFolder"])
        stay(msg) == [q |-> q, idx |-> idx, cur |-> cur, notices |-> {msg},
                      shown |-> Null, built |-> FALSE]
    IN  IF setts["sortFolder"] \notin flds
        THEN {stay("Sorteeer: Invalid folder path")}
        ELSE IF notes = {}
        THEN {stay("Sorteeer: No notes found in the specified folder")}
        ELSE IF Len(q) = 0 \/ idx >= Len(q)
        THEN {[q |-> p, idx |-> NextIndex(0, p), cur |-> p[1], notices |-> {},
               shown |-> p[1], built |-> TRUE] : p \in SortedBy(fs, notes, setts["sortOrder"])}
        ELSE {[q |-> q, idx |-> NextIndex(idx, q), cur |-> q[idx + 1], notices |-> {},
               shown |-> q[idx + 1], built |-> FALSE]}

----------------------------------------------------------------------------
(* Handlers of the review modal *)

\* loadNextNote run on queue q, cursor idx, current note cur, with displayNote's
\* incrementActionStat('noteDisplayed') when a note is displayed.  pre: the
\* notices the handler displayed before; log: the display log it continues.
RunLoadNextNote(fs, setts, strd, q, idx, cur, pre, log) ==
    \E o \in LoadNextNote(fs, folders, setts, q, idx, cur) :
        /\ (o.shown # Null) => CanIncrement(actionStats, "noteDisplayed")
        /\ sortedNotes' = o.q
        /\ currentIndex' = o.idx
        /\ currentNote' = o.cur
        /\ built' = o.built
        /\ notice' = pre \cup o.notices
        /\ displayLog' = IF o.shown # Null /\ log # Void THEN Append(log, o.shown) ELSE log
        /\ actionStats' = IF o.shown # Null
                          THEN IncrementedStats(actionStats, "noteDisplayed")
                          ELSE actionStats
        /\ stored' = IF o.shown # Null
                     THEN SavedActionStats(strd, IncrementedStats(actionStats, "noteDisplayed"))
                     ELSE strd

\* a handler whose first vault call rejected: nothing after it ran
Threw(name) ==
    /\ op' = name
    /\ built' = FALSE
    /\ notice' = {}
    /\ UNCHANGED <<vaultVars, pluginVars, sortedNotes, currentIndex, currentNote,
                   dailyVars, displayLog>>

\* openSorteeerModal: a new SorteeerModal, whose onOpen runs loadNextNote
\* (not while an addToDailyNote of the previous modal is in flight)
OpenSorteeerModal ==
    /\ loaded
    /\ ui \in {"closed", "review"}
    /\ dailyPc = "idle"
    /\ ui' = "review"
    /\ op' = "open"
    /\ RunLoadNextNote(files, settings, stored, << >>, 0, Null, {}, << >>)
    /\ UNCHANGED <<vaultVars, DEFAULTS, loaded, settings, dailyVars>>
    /\ UNCHANGED saves

\* the review modal is closed (Esc): onClose
CloseModal ==
    /\ ui = "review"
    /\ ui' = "closed"
    /\ op' = "close"
    /\ built' = FALSE
    /\ notice' = {}
    /\ UNCHANGED <<vaultVars, pluginVars, sortedNotes, currentIndex, currentNote,
                   dailyVars, displayLog>>
    /\ UNCHANGED saves

\* the review modal's buttons and keys exist once a note has been displayed
ReviewActive == loaded /\ ui = "review" /\ currentNote # Null

\* mutant of Trashed: the trash call leaves the file in the vault
TrashedStays(fs, id) == fs

\* vault.trash(file, true): the file leaves the vault for the system trash
Trashed(fs, id) == [fs EXCEPT ![id].st = "gone"]
TrashRecord(f) == [path |-> PathOf(f), content |-> f.content]

\* mutant of DeleteNote: the note is trashed and loadNextNote is not called
DeleteNoteStays ==
    /\ ReviewActive
    /\ IF Present(files, currentNote)
       THEN /\ files' = Trashed(files, currentNote)
            /\ trash' = Append(trash, TrashRecord(files[currentNote]))
            /\ op' = "delete"
            /\ built' = FALSE
            /\ notice' = {}
            /\ displayLog' = Void
            /\ UNCHANGED <<folders, today, pluginVars, modalVars, dailyVars>>
       ELSE /\ Threw("deleteThrew")
            /\ UNCHANGED ui
    /\ UNCHANGED saves

\* deleteNote
DeleteNote ==
    /\ ReviewActive
    /\ IF Present(files, currentNote)
       THEN /\ files' = Trashed(files, currentNote)
            /\ trash' = Append(trash, TrashRecord(files[currentNote]))
            /\ op' = "delete"
            /\ RunLoadNextNote(files', settings, stored, sortedNotes, currentIndex,
                               currentNote, {}, Void)
            /\ UNCHANGED <<folders, today, DEFAULTS, loaded, settings, ui, dailyVars>>
       ELSE /\ Threw("deleteThrew")
            /\ UNCHANGED ui
    /\ UNCHANGED saves

\* fileManager.renameFile(file, `${folder}/${file.name}`) succeeds: the file is
\* in the vault and nothing on disk has the new path
CanRename(fs, id, folder) ==
    /\ Present(fs, id)
    /\ ~DiskTaken(fs, folder, fs[id].name, fs[id].ext)

Renamed(fs, id, folder) == [fs EXCEPT ![id].folder = folder]

\* moveNote, under settings setts and stored data strd
MoveNoteWith(setts, strd) ==
    IF setts["moveAction"] \in folders
    THEN IF CanRename(files, currentNote, setts["moveAction"])
         THEN /\ files' = Renamed(files, currentNote, setts["moveAction"])
              /\ op' = "move"
              /\ ui' = "review"
              /\ RunLoadNextNote(files', setts, strd, sortedNotes, currentIndex,
                                 currentNote, {}, Void)
              /\ UNCHANGED <<folders, trash, today>>
         ELSE /\ op' = "moveThrew"
              /\ ui' = "review"
              /\ built' = FALSE
              /\ notice' = {}
              /\ stored' = strd
              /\ UNCHANGED <<vaultVars, actionStats, sortedNotes, currentIndex,
                             currentNote, displayLog>>
    ELSE /\ op' = "movePicker"
         /\ ui' = "picker"
         /\ built' = FALSE
         /\ notice' = {}
         /\ stored' = strd
         /\ UNCHANGED <<vaultVars, actionStats, sortedNotes, currentIndex,
                        currentNote, displayLog>>

MoveNote ==
    /\ ReviewActive
    /\ MoveNoteWith(settings, stored)
    /\ UNCHANGED <<DEFAULTS, loaded, settings, dailyVars>>
    /\ UNCHANGED saves

\* FolderSuggestModal.onChooseSuggestion(folder): the move folder is set and saved,
\* and moveNote runs again
ChooseMoveFolder(folder) ==
    /\ loaded
    /\ ui = "picker"
    /\ folder \in folders \ {Root}
    /\ settings' = [settings EXCEPT !["moveAction"] = folder]
    /\ MoveNoteWith(settings', SavedSettings(settings'))
    /\ UNCHANGED <<DEFAULTS, loaded, dailyVars>>
    /\ UNCHANGED saves

\* the folder picker is dismissed
ClosePicker ==
    /\ ui = "picker"
    /\ ui' = "review"
    /\ op' = "closePicker"
    /\ built' = FALSE
    /\ notice' = {}
    /\ UNCHANGED <<vaultVars, pluginVars, sortedNotes, currentIndex, currentNote,
                   dailyVars, displayLog>>
    /\ UNCHANGED saves

\* skipNote
SkipNote ==
    /\ ReviewActive
    /\ op' = "skip"
    /\ RunLoadNextNote(files, settings, stored, sortedNotes, currentIndex,
                       currentNote, {}, displayLog)
    /\ UNCHANGED <<vaultVars, DEFAULTS, loaded, settings, ui, dailyVars>>
    /\ UNCHANGED saves

\* SorteeerModal.copyNoteLink: new Notice(...), whatever the settings say
CopyNoteLink ==
    /\ ReviewActive
    /\ op' = "copyLink"
    /\ RunLoadNextNote(files, settings, stored, sortedNotes, currentIndex,
                       currentNote, {"Note link copied to clipboard"}, Void)
    /\ UNCHANGED <<vaultVars, DEFAULTS, loaded, settings, ui, dailyVars>>
    /\ UNCHANGED saves

\* showMoreActions
ShowMoreActions ==
    /\ ReviewActive
    /\ ui' = "more"
    /\ op' = "more"
    /\ built' = FALSE
    /\ notice' = {}
    /\ UNCHANGED <<vaultVars, pluginVars, sortedNotes, currentIndex, currentNote,
                   dailyVars, displayLog>>
    /\ UNCHANGED saves

\* displayNote's action bar: a click on the button createActionButton labels
\* `Alt+${shortcut}`
ClickButton(shortcut) ==
    CASE shortcut = 1 -> DeleteNote
      [] shortcut = 2 -> MoveNote
      [] shortcut = 3 -> SkipNote
      [] shortcut = 4 -> CopyNoteLink
      [] shortcut = 5 -> ShowMoreActions

\* handleNumberShortcut(num)
HandleNumberShortcut(num) ==
    CASE num = 1 -> DeleteNote
      [] num = 2 -> MoveNote
      [] num = 3 -> SkipNote
      [] num = 4 -> ShowMoreActions

\* handleGlobalShortcut(num), 1 <= num <= 5, with a modal that has a current
\* note: SorteeerModal has no removeTag, addTag, addStar, addLink or
\* addToDailyNote, so the call throws a TypeError and the listener ends there
HandleGlobalShortcut(num) ==
    /\ currentNote # Null
    /\ Threw("globalShortcutThrew")
    /\ UNCHANGED ui
    /\ UNCHANGED saves

\* keydown of Alt+key, key in 1..5, while the review modal shows a note.  With
\* the event's target inside contentEl the modal's onKeyDown runs first (keys
\* 1..4 go to handleNumberShortcut, 5 matches no case); the event then reaches
\* the document listener of onload, whose handleGlobalShortcut throws.  With
\* the target outside contentEl only the document listener runs.
AltDigitKeyDown(key, inContent) ==
    /\ ReviewActive
    /\ IF inContent /\ key \in 1..4
       THEN HandleNumberShortcut(key)
       ELSE HandleGlobalShortcut(key)

----------------------------------------------------------------------------
(* Handlers of the more-actions modal and of the link modal *)

\* the more-actions modal is dismissed
CloseMore ==
    /\ ui = "more"
    /\ ui' = "review"
    /\ op' = "closeMore"
    /\ built' = FALSE
    /\ notice' = {}
    /\ UNCHANGED <<vaultVars, pluginVars, sortedNotes, currentIndex, currentNote,
                   dailyVars, displayLog>>
    /\ UNCHANGED saves

\* content.replace(new RegExp(tag, 'g'), '') for a tag without regex operators
RemoveAll(content, tag) ==
    IF tag = << >> THEN content ELSE Join(Split(content, tag), << >>)

RemoveTagContent(content, setts) == RemoveAll(content, setts["removeTagAction"])
AddTagContent(content, setts) == content \o << "\n" >> \o setts["addTagAction"]
AddStarContent(content, setts) == setts["addStarAction"] \o << " " >> \o content
AddLinkContent(content, setts, linkText) ==
    content \o << "\n", "\n" >> \o setts["seeAlsoHeader"] \o << "\n" >> \o LinkText(linkText)

\* displayNote(note), as far as the plugin's state goes
DisplayedStats(stats) == IncrementedStats(stats, "noteDisplayed")

\* removeTag / addTag / addStar: the note is modified and displayed again, the
\* action counted and notified; executeAction closes the more-actions modal
EditNote(name, newContent, stat, message) ==
    /\ loaded
    /\ ui = "more"
    /\ ui' = "review"
    /\ IF Present(files, currentNote)
       THEN /\ CanIncrement(actionStats, "noteDisplayed")
            /\ CanIncrement(actionStats, stat)
            /\ files' = [files EXCEPT ![currentNote].content = newContent]
            /\ actionStats' = IncrementedStats(DisplayedStats(actionStats), stat)
            /\ stored' = SavedActionStats(stored, actionStats')
            /\ displayLog' = Void
            /\ notice' = ShowNotification(settings, message)
            /\ op' = name
            /\ built' = FALSE
            /\ UNCHANGED <<folders, trash, today, DEFAULTS, loaded, settings,
                           sortedNotes, currentIndex, currentNote, dailyVars>>
       ELSE Threw("editThrew")
    /\ UNCHANGED saves

RemoveTag ==
    EditNote("removeTag", RemoveTagContent(files[currentNote].content, settings),
             "removeTag", "Tag removed")

AddTag ==
    EditNote("addTag", AddTagContent(files[currentNote].content, settings),
             "addTag", "Tag added")

AddStar ==
    EditNote("addStar", AddStarContent(files[currentNote].content, settings),
             "addStar", "Star added")

\* MoreActionsModal.addLink: the link modal opens
AddLink ==
    /\ loaded
    /\ ui = "more"
    /\ ui' = "link"
    /\ op' = "addLinkOpen"
    /\ built' = FALSE
    /\ notice' = {}
    /\ UNCHANGED <<vaultVars, pluginVars, sortedNotes, currentIndex, currentNote,
                   dailyVars, displayLog>>
    /\ UNCHANGED saves

\* AddLinkModal.onChooseSuggestion(file) -> addLink(file.basename)
ChooseLink(target) ==
    /\ loaded
    /\ ui = "link"
    /\ Present(files, target)
    /\ files[target].ext = "md"
    /\ ui' = "review"
    /\ IF Present(files, currentNote)
       THEN /\ CanIncrement(actionStats, "noteDisplayed")
            /\ files' = [files EXCEPT ![currentNote].content =
                            AddLinkContent(files[currentNote].content, settings,
                                           files[target].name)]
            /\ actionStats' = DisplayedStats(actionStats)
            /\ stored' = SavedActionStats(stored, actionStats')
            /\ displayLog' = Void
            /\ notice' = {}
            /\ op' = "addLink"
            /\ built' = FALSE
            /\ UNCHANGED <<folders, trash, today, DEFAULTS, loaded, settings,
                           sortedNotes, currentIndex, currentNote, dailyVars>>
       ELSE Threw("editThrew")
    /\ UNCHANGED saves

\* the link modal is dismissed
CloseLink ==
    /\ ui = "link"
    /\ ui' = "review"
    /\ op' = "closeLink"
    /\ built' = FALSE
    /\ notice' = {}
    /\ UNCHANGED <<vaultVars, pluginVars, sortedNotes, currentIndex, currentNote,
                   dailyVars, displayLog>>
    /\ UNCHANGED saves

\* MoreActionsModal.copyNoteLink
MoreCopyNoteLink ==
    /\ loaded
    /\ ui = "more"
    /\ ui' = "review"
    /\ op' = "moreCopyLink"
    /\ RunLoadNextNote(files, settings, stored, sortedNotes, currentIndex, currentNote,
                       ShowNotification(settings, "Note link copied to clipboard"),
                       Void)
    /\ UNCHANGED <<vaultVars, DEFAULTS, loaded, settings, dailyVars>>
    /\ UNCHANGED saves

\* MoreActionsModal.addToDailyNote up to its first await: getDailyNote.  One
\* addToDailyNote is in flight at a time, and the vault has a spare file to create.
AddToDailyNote ==
    /\ loaded
    /\ ui = "more"
    /\ dailyPc = "idle"
    /\ \E id \in DailyIds : files[id].st = "unused"
    /\ LET r == GetDailyNote(files, folders, settings, today) IN
        /\ files' = r.files
        /\ dailyNote' = r.note
        /\ notice' = r.notices
    /\ dailyPc' = "got"
    /\ ui' = "review"
    /\ op' = "getDailyNote"
    /\ built' = FALSE
    /\ UNCHANGED <<folders, trash, today, pluginVars, sortedNotes, currentIndex,
                   currentNote, displayLog>>
    /\ UNCHANGED saves

\* MoreActionsModal.addToDailyNote after getDailyNote: the link is written
AddToDailyNoteWrite ==
    /\ dailyPc = "got"
    /\ dailyPc' = "idle"
    /\ dailyNote' = Null
    /\ built' = FALSE
    /\ IF dailyNote = Null
       THEN /\ op' = "addToDailyNoteFailed"
            /\ notice' = ShowNotification(settings, "Failed to find or create daily note")
            /\ UNCHANGED <<vaultVars, pluginVars, modalVars, displayLog>>
       ELSE IF Present(files, dailyNote)
       THEN /\ CanIncrement(actionStats, "addToDailyNote")
            /\ files' = [files EXCEPT ![dailyNote].content =
                            AddToDailyContent(files[dailyNote].content,
                                              settings["dailyNoteSection"],
                                              files[currentNote].name)]
            /\ actionStats' = IncrementedStats(actionStats, "addToDailyNote")
            /\ stored' = SavedActionStats(stored, actionStats')
            /\ notice' = ShowNotification(settings, "Added link to daily note")
            /\ op' = "addToDailyNote"
            /\ UNCHANGED <<folders, trash, today, DEFAULTS, loaded, settings,
                           modalVars, displayLog>>
       ELSE \* vault.read rejected
            /\ op' = "addToDailyNoteThrew"
            /\ notice' = {}
            /\ UNCHANGED <<vaultVars, pluginVars, modalVars, displayLog>>
    /\ UNCHANGED saves

----------------------------------------------------------------------------
(* The plugin object *)

\* onload: loadSettings, then loadActionStats
Onload ==
    /\ ~loaded
    /\ loaded' = TRUE
    /\ settings' = LoadSettings(DEFAULTS, stored).settings
    /\ DEFAULTS' = LoadSettings(DEFAULTS, stored).defaults
    /\ actionStats' = LoadActionStatsOf(stored)
    /\ op' = "onload"
    /\ built' = FALSE
    /\ notice' = {}
    /\ UNCHANGED <<vaultVars, stored, modalVars, dailyVars, displayLog>>
    /\ UNCHANGED saves

\* onunload, and the plugin object is dropped
Onunload ==
    /\ loaded
    /\ dailyPc = "idle"
    /\ loaded' = FALSE
    /\ settings' = EmptyObj
    /\ actionStats' = EmptyObj
    /\ ui' = "closed"
    /\ sortedNotes' = << >>
    /\ currentIndex' = 0
    /\ currentNote' = Null
    /\ displayLog' = << >>
    /\ op' = "onunload"
    /\ built' = FALSE
    /\ notice' = {}
    /\ UNCHANGED <<vaultVars, stored, DEFAULTS, dailyVars>>
    /\ UNCHANGED saves

\* a control of the settings tab changes: settings[key] = value; saveSettings()
ChangeSetting(key, value) ==
    /\ loaded
    /\ ui = "closed"
    /\ settings[key] # value
    /\ settings' = [settings EXCEPT ![key] = value]
    /\ stored' = SavedSettings(settings')
    /\ op' = "changeSetting"
    /\ built' = FALSE
    /\ notice' = {}
    /\ UNCHANGED <<vaultVars, DEFAULTS, loaded, actionStats, modalVars, dailyVars,
                   displayLog>>
    /\ UNCHANGED saves

\* incrementActionStat(action), with its saveActionStats run to completion
IncrementActionStat(action) ==
    /\ loaded
    /\ CanIncrement(actionStats, action)
    /\ actionStats' = IncrementedStats(actionStats, action)
    /\ stored' = SavedActionStats(stored, actionStats')
    /\ op' = "incrementActionStat"
    /\ built' = FALSE
    /\ notice' = {}
    /\ UNCHANGED <<vaultVars, DEFAULTS, loaded, settings, modalVars, dailyVars,
                   displayLog>>
    /\ UNCHANGED saves

\* a sequence without its i-th element
RemoveAt(q, i) == SubSeq(q, 1, i - 1) \o SubSeq(q, i + 1, Len(q))

\* incrementActionStat(action) as it runs: the counter is raised and
\* saveActionStats is called and not awaited; it stops at `await this.loadData()`
IncrementActionStatStart(action) ==
    /\ loaded
    /\ CanIncrement(actionStats, action)
    /\ Len(saves) < MaxSaves
    /\ actionStats' = IncrementedStats(actionStats, action)
    /\ saves' = Append(saves, [pc |-> "load", data |-> EmptyObj])
    /\ op' = "incrementActionStat"
    /\ built' = FALSE
    /\ notice' = {}
    /\ UNCHANGED <<vaultVars, stored, DEFAULTS, loaded, settings, modalVars, dailyVars,
                   displayLog>>

\* saveActionStats: loadData() returns the stored data
SaveActionStatsLoad(i) ==
    /\ i \in 1..Len(saves)
    /\ saves[i].pc = "load"
    /\ saves' = [saves EXCEPT ![i] = [pc |-> "save", data |-> stored]]
    /\ op' = "saveActionStatsLoad"
    /\ built' = FALSE
    /\ notice' = {}
    /\ UNCHANGED <<vaultVars, pluginVars, modalVars, dailyVars, displayLog>>

\* saveActionStats: saveData({...data, actionStats: this.actionStats})
SaveActionStatsSave(i) ==
    /\ i \in 1..Len(saves)
    /\ saves[i].pc = "save"
    /\ stored' = SavedActionStats(saves[i].data, actionStats)
    /\ saves' = RemoveAt(saves, i)
    /\ op' = "saveActionStatsSave"
    /\ built' = FALSE
    /\ notice' = {}
    /\ UNCHANGED <<vaultVars, DEFAULTS, loaded, settings, actionStats, modalVars,
                   dailyVars, displayLog>>

\* action.startsWith(new Date().toDateString()): toDateString gives
\* 'Tue Dec 31 2024', and no key incrementActionStat is called with begins
\* with the name of a weekday
StartsWithToday(action, date) == FALSE

\* getNotesReviewedToday: the sum of the counters of 'noteDisplayed' and of
\* the keys that start with today's date string
RECURSIVE SumReviewed(_, _, _)
SumReviewed(stats, keys, date) ==
    IF keys = {} THEN 0
    ELSE LET action == CHOOSE k \in keys : TRUE
             counted == action = "noteDisplayed" \/ StartsWithToday(action, date)
         IN  (IF counted THEN stats[action] ELSE 0)
                 + SumReviewed(stats, keys \ {action}, date)

GetNotesReviewedToday(stats, date) == SumReviewed(stats, DOMAIN stats, date)

\* host: midnight passes
DayPasses ==
    /\ today = [y |-> 2024, m |-> 12, d |-> 31]
    /\ today' = [y |-> 2025, m |-> 1, d |-> 1]
    /\ op' = "dayPasses"
    /\ built' = FALSE
    /\ notice' = {}
    /\ displayLog' = Void
    /\ UNCHANGED <<folders, files, trash, pluginVars, modalVars, dailyVars>>
    /\ UNCHANGED saves

----------------------------------------------------------------------------
(* Initial states *)

Dates == {[y |-> 2024, m |-> 12, d |-> 31], [y |-> 2025, m |-> 1, d |-> 1]}

Formats == {<< "YYYY", "-", "MM", "-", "DD" >>, << "YYYY", "-", "MM" >>, << "DD", ".", "MM" >>}

\* the vault's notes: n1..n3 in Inbox (n1 and n3 as old and as large as each
\* other), an image and a subfolder with a note beside them, n4 in Archive
\* with n1's name
InitFiles(withN3, withN4) ==
    [id \in FileIds |->
        CASE id = "n1" -> File("Inbox", << "a" >>, "md", 2, << "x", "#stub" >>)
          [] id = "n2" -> File("Inbox", << "b" >>, "md", 1, << "x" >>)
          [] id = "n3" -> IF withN3
                          THEN File("Inbox", << "c" >>, "md", 2, << "#stub", "x" >>)
                          ELSE Unused
          [] id = "n4" -> IF withN4
                          THEN File("Archive", << "a" >>, "md", 3, << "y" >>)
                          ELSE Unused
          [] id = "p1" -> File("Inbox", << "p" >>, "png", 0, << "i", "m", "g" >>)
          [] id = "s1" -> File("Inbox/Sub", << "s" >>, "md", 0, << >>)
          [] OTHER -> Unused]

InitFolders(withArchive) ==
    {Root, "Inbox", "Daily", "Inbox/Sub"} \cup (IF withArchive THEN {"Archive"} ELSE {})

\* the state of a loaded plugin over stored data data, no modal opened yet
LoadedOver(data) ==
    /\ stored = data
    /\ DEFAULTS = DEFAULT_SETTINGS
    /\ loaded = TRUE
    /\ settings = LoadSettings(DEFAULT_SETTINGS, data).settings
    /\ actionStats = LoadActionStatsOf(data)
    /\ ui = "closed"
    /\ sortedNotes = << >>
    /\ currentIndex = 0
    /\ currentNote = Null
    /\ dailyPc = "idle"
    /\ dailyNote = Null
    /\ op = "onload"
    /\ built = FALSE
    /\ notice = {}
    /\ displayLog = << >>
    /\ saves = << >>

SortOrders == {"random", "oldest", "newest", "smallest"}

\* stored data of an installation that sorts sortFolder in order sortOrder
StoredWith(sortFolder, sortOrder, show) ==
    [k \in {"sortFolder", "sortOrder", "dailyNoteFolder", "dailyNoteSection",
            "showNotifications"} |->
        CASE k = "sortFolder" -> sortFolder
          [] k = "sortOrder" -> sortOrder
          [] k = "dailyNoteFolder" -> "Daily"
          [] k = "dailyNoteSection" -> << "#" >>
          [] k = "showNotifications" -> show]

\* the review of Inbox, oldest first: with or without the Archive folder (and
\* its note of n1's name), with or without notifications
Init ==
    /\ \E withArchive \in BOOLEAN :
        /\ folders = InitFolders(withArchive)
        /\ files = InitFiles(FALSE, withArchive)
    /\ trash = << >>
    /\ today = [y |-> 2024, m |-> 12, d |-> 31]
    /\ \E show \in BOOLEAN : LoadedOver(StoredWith("Inbox", "oldest", show))

\* the files the link modal's suggestion is chosen among
LinkTargets == {"n2"}

\* the folders the folder picker's suggestion is chosen among
PickerChoices == {"Archive", "Daily"}

Next ==
    \/ OpenSorteeerModal
    \/ CloseModal
    \/ DeleteNote
    \/ MoveNote
    \/ \E folder \in PickerChoices : ChooseMoveFolder(folder)
    \/ ClosePicker
    \/ SkipNote
    \/ CopyNoteLink
    \/ ShowMoreActions
    \/ CloseMore
    \/ RemoveTag
    \/ AddTag
    \/ AddStar
    \/ AddLink
    \/ \E target \in LinkTargets : ChooseLink(target)
    \/ CloseLink
    \/ MoreCopyNoteLink
    \/ AddToDailyNote
    \/ AddToDailyNoteWrite

Spec == Init /\ [][Next]_vars

----------------------------------------------------------------------------
(* Claims about the review modal *)

\* the next note of the queue: the entry at the cursor
NextQueued == sortedNotes[currentIndex + 1]

ModalSame ==
    /\ currentNote' = currentNote
    /\ currentIndex' = currentIndex
    /\ sortedNotes' = sortedNotes

\* the sort folder exists and holds a markdown note, after the step
NotesLeft ==
    /\ settings'["sortFolder"] \in folders'
    /\ MdChildren(files', folders', settings'["sortFolder"]) # {}

\* C1 as stated: after a delete, move, remove tag, add tag, add link or
\* add-to-daily-note action on the current note completes, currentNote is the
\* next note of the queue.
C1_AdvancesAfterEveryAction ==
    [][op' \in {"delete", "move", "removeTag", "addTag", "addLink", "addToDailyNote"}
        => currentNote' = NextQueued]_vars

\* C1 amended: a completed delete or move advances to the entry at the cursor
\* (the cursor wrapping, the queue kept as it is) when the sort folder still
\* holds a markdown note, and leaves the modal as it is when it holds none;
\* remove tag, add tag, add star and add link display the same note again and
\* add-to-daily-note leaves the modal alone: currentNote, cursor and queue
\* are unchanged.
C1_AdvanceOnlyAfterDeleteOrMove ==
    [][/\ (op' \in {"delete", "move"} /\ NotesLeft)
            => /\ currentNote' = NextQueued
               /\ currentIndex' = NextIndex(currentIndex, sortedNotes)
               /\ sortedNotes' = sortedNotes
       /\ (op' \in {"delete", "move"} /\ ~NotesLeft) => ModalSame
       /\ op' \in {"removeTag", "addTag", "addStar", "addLink", "addToDailyNote"}
            => ModalSame]_vars

\* C1's cases: a delete has advanced to a note still in the vault; a tag was
\* removed from the note displayed
C1_Witness ==
    \/ op = "delete" /\ notice = {} /\ Len(trash) = 1 /\ Present(files, currentNote)
          /\ currentNote = sortedNotes[2]
    \/ op = "removeTag" /\ Len(sortedNotes) = 2 /\ currentNote = sortedNotes[1]

\* some step of the plugin brings the note deleted last back into the vault,
\* at its path and with its content
UndoLastDelete ==
    /\ Next
    /\ \E id \in FileIds :
        /\ Present(files', id)
        /\ TrashRecord(files'[id]) = trash[Len(trash)]
    /\ UNCHANGED saves

MoveRan == op' \in {"move", "moveThrew", "movePicker"}

\* C7 as stated: moveNote with an existing move folder puts the note at
\* <move folder>/<same name> with its content, changes no other file and
\* advances; with a missing move folder it changes no file, leaves cursor and
\* currentNote alone and opens the folder picker.
C7_MoveNoteContract ==
    [][MoveRan =>
        IF settings'["moveAction"] \in folders
        THEN /\ Present(files', currentNote)
             /\ files'[currentNote] =
                    [files[currentNote] EXCEPT !.folder = settings'["moveAction"]]
             /\ \A id \in FileIds \ {currentNote} : files'[id] = files[id]
             /\ currentNote' = NextQueued
        ELSE /\ files' = files
             /\ currentIndex' = currentIndex
             /\ currentNote' = currentNote
             /\ ui' = "picker"]_vars

\* the handlers that act on a note from the review or the more-actions modal
NoteActionOps ==
    {"delete", "move", "skip", "copyLink", "removeTag", "addTag", "addStar",
     "addLink", "addToDailyNote", "moreCopyLink"}

\* C10 as stated: with Show Notifications off, no action on a note displays a
\* notification.
C10_NoNoticeWhenOff ==
    (op \in NoteActionOps /\ settings["showNotifications"] = FALSE) => notice = {}

\* the handlers that completed an action on the current note, by their op
CompletedActionOps ==
    {"delete", "move", "skip", "removeTag", "addTag", "addStar", "addLink",
     "addToDailyNote"}

\* the step counts one action: a counter other than noteDisplayed grows by
\* one and no other such counter changes
CountsOneAction ==
    \E k \in DOMAIN actionStats' \ {"noteDisplayed"} :
        /\ StatCount(actionStats', k) = StatCount(actionStats, k) + 1
        /\ \A j \in (DOMAIN actionStats \cup DOMAIN actionStats') \ {k, "noteDisplayed"} :
              StatCount(actionStats', j) = StatCount(actionStats, j)

\* C12: every action completed on a note (delete, move, skip, remove tag, add
\* tag, add star, add link, add to daily note) increases the counter of that
\* action in the stats map by exactly one
C12_CompletedActionsCounted ==
    [][op' \in CompletedActionOps => CountsOneAction]_vars

\* C12, for the four actions that call incrementActionStat with their name:
\* the counter of that name grows by one
C12_EditActionsCounted ==
    [][op' \in {"removeTag", "addTag", "addStar", "addToDailyNote"} =>
          /\ CountsOneAction
          /\ StatCount(actionStats', op') = StatCount(actionStats, op') + 1]_vars

----------------------------------------------------------------------------
(* The queue alone: any sort folder and sort order, two or three notes *)

InitQueue ==
    /\ \E withN3 \in BOOLEAN :
        /\ folders = InitFolders(TRUE)
        /\ files = InitFiles(withN3, TRUE)
    /\ trash = << >>
    /\ today = [y |-> 2024, m |-> 12, d |-> 31]
    /\ \E sortFolder \in {"Inbox", Root, "Nowhere"}, sortOrder \in SortOrders :
        LoadedOver(StoredWith(sortFolder, sortOrder, TRUE))

NextQueue ==
    \/ OpenSorteeerModal
    \/ CloseModal
    \/ SkipNote
    \/ CopyNoteLink
    \/ DeleteNote

SpecQueue == InitQueue /\ [][NextQueue]_vars

NoDuplicates(q) == \A i, j \in 1..Len(q) : i # j => q[i] # q[j]

\* C5: since the modal was opened and while it was only skipped through, the
\* k-th note displayed is the queue's entry k (counting on from the first after
\* the last), and the queue holds no note twice: n advances display each of
\* the n queued notes once, in queue order, before any is displayed again.
C5_EachNoteOnceInQueueOrder ==
    (displayLog # Void /\ displayLog # << >>) =>
        /\ Len(sortedNotes) >= 1
        /\ NoDuplicates(sortedNotes)
        /\ \A i \in 1..Len(displayLog) :
                displayLog[i] = sortedNotes[((i - 1) % Len(sortedNotes)) + 1]

\* C5's case: every queued note was displayed once and the first one again
C5_Witness ==
    /\ displayLog # Void
    /\ Len(sortedNotes) >= 2
    /\ Len(displayLog) = Len(sortedNotes) + 1
    /\ op = "skip"

\* the queue is in the order sortOrder asks for
InSortOrder(fs, q, sortOrder) ==
    \A i, j \in 1..Len(q) : i < j =>
        CASE sortOrder = "oldest" -> fs[q[i]].ctime <= fs[q[j]].ctime
          [] sortOrder = "newest" -> fs[q[i]].ctime >= fs[q[j]].ctime
          [] sortOrder = "smallest" -> Len(fs[q[i]].content) <= Len(fs[q[j]].content)
          [] OTHER -> TRUE

\* C6: a queue loadNextNote has just built holds exactly the markdown files
\* directly in the sort folder, each once, in the order the sort order asks for.
C6_QueueIsSortedFolderContent ==
    built =>
        /\ NoDuplicates(sortedNotes)
        /\ {sortedNotes[i] : i \in 1..Len(sortedNotes)} =
               {id \in FileIds : /\ files[id].st = "present"
                                 /\ files[id].folder = settings["sortFolder"]
                                 /\ files[id].ext = "md"}
        /\ InSortOrder(files, sortedNotes, settings["sortOrder"])

\* C6's case: a queue of two notes was built after a delete, smallest first
C6_Witness ==
    /\ built
    /\ Len(sortedNotes) = 2
    /\ Len(trash) = 1
    /\ settings["sortOrder"] = "smallest"

----------------------------------------------------------------------------
(* The plugin object alone: loading, changing and saving settings and stats *)

StoredKeys == SettingKeys \cup {"actionStats"}

\* a value of key k other than its default
OtherValue(k) ==
    CASE k = "sortFolder" -> "Inbox"
      [] k = "sortOrder" -> "newest"
      [] k = "deleteAction" -> "delete"
      [] k = "moveAction" -> "Done"
      [] k = "removeTagAction" -> << "#t" >>
      [] k = "addTagAction" -> << "#seen" >>
      [] k = "addStarAction" -> << "+" >>
      [] k = "addLinkAction" -> "x"
      [] k = "seeAlsoHeader" -> << "Related" >>
      [] k = "dailyNoteFormat" -> << "DD", ".", "MM" >>
      [] k = "dailyNoteFolder" -> "Daily"
      [] k = "dailyNoteSection" -> << "#" >>
      [] k = "showNotifications" -> FALSE
      [] k = "actionStats" -> [noteDisplayed |-> 1]

\* data.json before the plugin loads: nothing, or a few keys
InitSettings ==
    /\ folders = InitFolders(TRUE)
    /\ files = InitFiles(FALSE, TRUE)
    /\ trash = << >>
    /\ today = [y |-> 2024, m |-> 12, d |-> 31]
    /\ \E D \in SUBSET StoredKeys :
        /\ Cardinality(D) <= MaxStoredKeys
        /\ stored = [k \in D |-> OtherValue(k)]
    /\ DEFAULTS = DEFAULT_SETTINGS
    /\ loaded = FALSE
    /\ settings = EmptyObj
    /\ actionStats = EmptyObj
    /\ ui = "closed"
    /\ sortedNotes = << >>
    /\ currentIndex = 0
    /\ currentNote = Null
    /\ dailyPc = "idle"
    /\ dailyNote = Null
    /\ op = "start"
    /\ built = FALSE
    /\ notice = {}
    /\ displayLog = << >>
    /\ saves = << >>

\* the settings the settings tab changes, and the counters incremented
ChangedKeys == {"sortOrder", "showNotifications"}
CountedActions == {"noteDisplayed", "addTag"}

NextSettings ==
    \/ Onload
    \/ Onunload
    \/ \E k \in ChangedKeys : \E v \in {OtherValue(k), DEFAULT_SETTINGS[k]} :
            ChangeSetting(k, v)
    \/ \E a \in CountedActions : IncrementActionStat(a)

SpecSettings == InitSettings /\ [][NextSettings]_vars

\* C2: after loadSettings every key of DEFAULT_SETTINGS holds the stored value
\* when the stored data has the key and the default otherwise, and the object
\* DEFAULT_SETTINGS is as it was written, after loading and after any change.
C2_DefaultsFillMissingKeys ==
    /\ DEFAULTS = DEFAULT_SETTINGS
    /\ op = "onload" =>
        \A k \in SettingKeys :
            /\ k \in DOMAIN settings
            /\ settings[k] = IF k \in DOMAIN stored THEN stored[k] ELSE DEFAULT_SETTINGS[k]

\* C2's case: loaded over data that has one setting and lacks another
C2_Witness ==
    /\ op = "onload"
    /\ "sortOrder" \in DOMAIN stored
    /\ "moveAction" \notin DOMAIN stored
    /\ settings["sortOrder"] = "newest"
    /\ settings["moveAction"] = "Archive"

\* C3 as stated: after any incrementActionStat or saveSettings call has
\* completed, the stored data holds an actionStats map equal to the counter map
\* in memory (what loadActionStats would restore is what is in memory).
C3_StoredStatsAreTheCounters ==
    (loaded /\ op \in {"incrementActionStat", "changeSetting"}) =>
        LoadActionStatsOf(stored) = actionStats

----------------------------------------------------------------------------
(* The daily note alone: any date, format, section and daily note *)

\* the host's file index catches up with a file on disk
HostIndexes(id) ==
    /\ files[id].st = "unindexed"
    /\ files' = [files EXCEPT ![id].st = "present"]
    /\ op' = "hostIndexes"
    /\ built' = FALSE
    /\ notice' = {}
    /\ UNCHANGED <<folders, trash, today, pluginVars, modalVars, dailyVars, displayLog>>
    /\ UNCHANGED saves

Sections == {<< >>, << "#" >>, << "#", "#" >>, << "#", "R" >>}

RECURSIVE SeqsUpTo(_, _)
\* the sequences over S of length at most n
SeqsUpTo(S, n) ==
    IF n = 0 THEN {<< >>}
    ELSE SeqsUpTo(S, n - 1) \cup
         {Append(q, c) : q \in {x \in SeqsUpTo(S, n - 1) : Len(x) = n - 1}, c \in S}

DailyContents == SeqsUpTo({"#", "R"}, MaxDailyLen)

StoredDaily(folder, format, section) ==
    [k \in {"sortFolder", "sortOrder", "dailyNoteFolder", "dailyNoteFormat",
            "dailyNoteSection"} |->
        CASE k = "sortFolder" -> "Inbox"
          [] k = "sortOrder" -> "oldest"
          [] k = "dailyNoteFolder" -> folder
          [] k = "dailyNoteFormat" -> format
          [] k = "dailyNoteSection" -> section]

\* a daily note of some date may be in the vault, or on disk only, or nowhere
InitDaily ==
    /\ \E withDaily \in BOOLEAN :
        folders = {Root, "Inbox", "Inbox/Sub"} \cup (IF withDaily THEN {"Daily"} ELSE {})
    /\ today \in Dates
    /\ trash = << >>
    /\ \E format \in Formats, section \in Sections :
        /\ LoadedOver(StoredDaily("Daily", format, section))
        /\ \E st \in {"unused", "unindexed", "present"}, date \in Dates,
              content \in DailyContents :
            /\ st = "unused" => (content = << >> /\ date = today)
            /\ st # "unused" => "Daily" \in folders
            /\ files = [InitFiles(FALSE, FALSE) EXCEPT
                            !["d1"] = IF st = "unused" THEN Unused
                                      ELSE [File("Daily", FormatDate(format, date), "md",
                                                 5, content) EXCEPT !.st = st]]

NextDaily ==
    \/ OpenSorteeerModal
    \/ SkipNote
    \/ ShowMoreActions
    \/ AddToDailyNote
    \/ AddToDailyNoteWrite
    \/ \E id \in DailyIds : HostIndexes(id)

SpecDaily == InitDaily /\ [][NextDaily]_vars

\* the line `\n- [[basename]]` of the current note
LinkLine == << "\n" >> \o LinkText(files[currentNote].name)

\* text put into s after its first n characters
InsertedAfter(s, n, text) == SubSeq(s, 1, n) \o text \o SubSeq(s, n + 1, Len(s))

\* C8 as stated: addToDailyNote puts the link line directly after the first
\* occurrence of the section header when the daily note contains the header,
\* and appends the header and the line otherwise; taking the inserted text out
\* gives the previous content.
C8_LinkLineUnderSection ==
    [][op' = "addToDailyNote" =>
        LET old == files[dailyNote].content
            new == files'[dailyNote].content
            header == settings["dailyNoteSection"]
        IN  IF Includes(old, header)
            THEN new = InsertedAfter(old, IndexFrom(old, header, 1) + Len(header) - 1,
                                     LinkLine)
            ELSE new = old \o << "\n", "\n" >> \o header \o LinkLine]_vars

\* C8 for a section header of at least one character
C8_LinkLineUnderNonEmptySection ==
    [][(op' = "addToDailyNote" /\ settings["dailyNoteSection"] # << >>) =>
        LET old == files[dailyNote].content
            new == files'[dailyNote].content
            header == settings["dailyNoteSection"]
        IN  IF Includes(old, header)
            THEN new = InsertedAfter(old, IndexFrom(old, header, 1) + Len(header) - 1,
                                     LinkLine)
            ELSE new = old \o << "\n", "\n" >> \o header \o LinkLine]_vars

\* the path of today's daily note
DailyPath == << settings["dailyNoteFolder"],
                FormatDate(settings["dailyNoteFormat"], today), "md" >>

AtPath(fs, path) == {id \in FileIds : OnDisk(fs, id) /\ PathOf(fs[id]) = path}

----------------------------------------------------------------------------
(* The review modal's buttons and keys: Inbox or the root, any sort order;
   the move folder exists, so the folder picker never opens *)

NextKeys ==
    \/ OpenSorteeerModal
    \/ CloseModal
    \/ \E shortcut \in 1..5 : ClickButton(shortcut)
    \/ \E key \in 1..5, inContent \in BOOLEAN : AltDigitKeyDown(key, inContent)
    \/ CloseMore

SpecKeys == InitQueue /\ [][NextKeys]_vars

\* C11: pressing Alt+N while the review modal shows a note does what a click
\* on the button labelled Alt+N does (Delete 1, Move 2, Skip 3, Copy Link 4,
\* More 5), and nothing else
C11_AltNIsButtonN ==
    [][\A key \in 1..5, inContent \in BOOLEAN :
          AltDigitKeyDown(key, inContent) => ClickButton(key)]_vars

\* C11, keys 1 to 3 pressed inside the modal's content only: these do what
\* their buttons do
C11_Alt1To3InContent ==
    [][\A key \in 1..3 : AltDigitKeyDown(key, TRUE) => ClickButton(key)]_vars

----------------------------------------------------------------------------
(* The footer of the review modal, over sessions and days *)

NextFooter ==
    \/ OpenSorteeerModal
    \/ CloseModal
    \/ SkipNote
    \/ ShowMoreActions
    \/ CloseMore
    \/ AddTag
    \/ Onunload
    \/ Onload
    \/ DayPasses

SpecFooter == Init /\ [][NextFooter]_vars

\* the number the footer 'Notes reviewed today: N' of the displayed note shows
Footer == GetNotesReviewedToday(actionStats, today)

\* the elements of a sequence
Range(q) == {q[i] : i \in 1..Len(q)}

\* the step displayed a note
Displayed == actionStats' # actionStats /\ currentNote' # Null

\* C13: the footer shows the number of notes reviewed on the current calendar
\* day.  It does not grow when the note is displayed again after a tag, star
\* or link edit; it does not grow when skipping comes back to a note already
\* displayed since the modal was opened; the first note displayed in a
\* session, and the first displayed after midnight, makes it 1.
C13_FooterCountsNotesReviewedToday ==
    [][/\ op' \in {"removeTag", "addTag", "addStar", "addLink"} => Footer' = Footer
       /\ (op' = "skip" /\ Displayed /\ displayLog # Void
              /\ currentNote' \in Range(displayLog)) => Footer' = Footer
       /\ (op = "onload" /\ op' = "open" /\ Displayed) => Footer' = 1
       /\ (op = "dayPasses" /\ op' \in {"open", "skip"} /\ Displayed) => Footer' = 1
      ]_vars

\* C13, what the footer is: the number of displayNote calls the stored data
\* and this session have counted, whatever the day
C13_FooterIsDisplayCount ==
    /\ Footer = StatCount(actionStats, "noteDisplayed")
    /\ loaded => Footer >= StatCount(LoadActionStatsOf(stored), "noteDisplayed")

----------------------------------------------------------------------------
(* saveSettings against saveActionStats calls in flight *)

\* an installation whose settings have been saved, loaded, no modal open
InitSaves ==
    /\ folders = InitFolders(TRUE)
    /\ files = InitFiles(FALSE, TRUE)
    /\ trash = << >>
    /\ today = [y |-> 2024, m |-> 12, d |-> 31]
    /\ LoadedOver(DEFAULT_SETTINGS)

NextSaves ==
    \/ \E k \in ChangedKeys : \E v \in {OtherValue(k), DEFAULT_SETTINGS[k]} :
            ChangeSetting(k, v)
    \/ \E a \in CountedActions : IncrementActionStatStart(a)
    \/ \E i \in 1..MaxSaves : SaveActionStatsLoad(i)
    \/ \E i \in 1..MaxSaves : SaveActionStatsSave(i)

SpecSaves == InitSaves /\ [][NextSaves]_vars

\* the stored data holds every setting with its value in memory
StoredSettingsCurrent ==
    \A k \in SettingKeys : k \in DOMAIN stored /\ stored[k] = settings[k]

\* C14: when a settings change has been saved while a saveActionStats was
\* between its read and its write, then, once no save is in flight, the stored
\* settings values are the values in memory (no settings change is lost)
C14_SettingsChangeNotLost ==
    saves = << >> => StoredSettingsCurrent

\* C14, without the overlap: a settings change saved while no saveActionStats
\* has read and not yet written leaves the stored settings current
C14_SavedSettingsAreStored ==
    [][(op' = "changeSetting" /\ \A i \in 1..Len(saves) : saves[i].pc = "load")
          => StoredSettingsCurrent']_vars

====
